---- MODULE Spec2Model ----
(***************************************************************************)
(* Pan-tilt pet tracker: the servo guard (modules/servo_controller.py) and *)
(* the tracking coordinator (modules/tracking_coordinator.py).             *)
(*                                                                         *)
(* Angles are integers in units of 1/10000 degree, so that the             *)
(* products of pixel errors and the default gains are exact.               *)
(* A method of ServoController is executed by a thread as a call frame     *)
(* (call[t]); the frame advances one step per action, the steps being cut  *)
(* where the method blocks (time.sleep) or touches the hardware.           *)
(***************************************************************************)
EXTENDS Integers, Sequences, FiniteSets, TLC

VARIABLES
  servo,      \* the ServoController objects constructed so far, by number
  phys,       \* the angles the two physical servos were last commanded to
  faults,     \* driver exceptions raised so far
  call,       \* per thread: the ServoController method it is executing
  tpc,        \* per thread: its position in the coordinator's code
  loc,        \* per thread: the locals of its control cycle / stop_tracking
  status,     \* TrackingCoordinator.status (SystemStatus)
  co,         \* the other attributes of the TrackingCoordinator
  lock,       \* TrackingCoordinator.lock: the holding thread, or NoThread
  initrec,    \* outcome of the latest initialize_system call
  now,        \* wall clock, in seconds
  yolo,       \* a YOLODetector's results for one frame, used on its own
  ctl,        \* a SimpleProportionalController used on its own
  pid         \* a PIDController used on its own

svars == <<servo, phys, faults, call>>

\* the components exercised on their own, outside the coordinator
uvars == <<yolo, ctl, pid>>

cvars == <<tpc, loc, status, co, lock, initrec, now, uvars>>

\* the guard and the coordinator
ovars == <<servo, phys, faults, call, tpc, loc, status, co, lock, initrec, now>>

vars == <<servo, phys, faults, call, tpc, loc, status, co, lock, initrec, now,
          uvars>>

(* ------------------------------ bounds -------------------------------- *)

\* x degrees in model units (1/10000 degree)
Deg(x) == x * 10000

\* sentinel for "no angle written"
NoAngle == Deg(-10000)

\* the thread that drives a ServoController or the coordinator from outside
MainThread == 0

\* ServoController objects constructed, worker threads started
MaxStarts == 2

\* driver exceptions raised in one run
MaxFaults == 1

Workers == 1..MaxStarts

Threads == {MainThread} \cup Workers

NoThread == MainThread - 1

\* configured (pan_range, tilt_range) pairs tried for a ServoController
PanRanges == {<<Deg(-90), Deg(90)>>, <<Deg(10), Deg(90)>>}

TiltRanges == {<<Deg(-45), Deg(45)>>, <<Deg(-45), Deg(-10)>>}

\* angles passed to the setters
TestPans == {Deg(-100), Deg(-90), Deg(0), Deg(45), Deg(90), Deg(100)}

TestTilts == {Deg(-50), Deg(-45), Deg(0), Deg(45), Deg(50)}

(* ------------------------- ServoController ---------------------------- *)

ServoStatus == {"uninitialized", "initializing", "ready", "moving", "error"}

\* ServoController.__init__
NewServo(pan_range, tilt_range) ==
  [pan_min |-> pan_range[1], pan_max |-> pan_range[2],
   tilt_min |-> tilt_range[1], tilt_max |-> tilt_range[2],
   hw |-> FALSE,
   current_pan_angle |-> 0, current_tilt_angle |-> 0,
   status |-> "uninitialized"]

\* _is_ready, lines 375-380
IsReadyOrError(s) == s.status \in {"ready", "error"}

IsReady(s) == s.status = "ready"

IsPanAngleSafeStrict(s, angle) == s.pan_min < angle /\ angle < s.pan_max

IsPanAngleSafe(s, angle) == s.pan_min <= angle /\ angle <= s.pan_max

IsTiltAngleSafe(s, angle) == s.tilt_min <= angle /\ angle <= s.tilt_max

AnyAngleSafe(s, pan, tilt) == TRUE

is_angle_safe(s, pan, tilt) == IsPanAngleSafe(s, pan) /\ IsTiltAngleSafe(s, tilt)

PanAngleToServo(angle) == angle + Deg(90)

TiltAngleToServo(angle) == angle + Deg(90)

\* outcomes of the two driver writes of _set_servo_angles: both succeed, the
\* pan write raises (nothing written), the tilt write raises (pan written)
WriteOutcomes == {"ok", "raise_pan", "raise_tilt"}

\* outcomes of the single driver write of set_pan_angle / set_tilt_angle
SingleOutcomes == {"ok", "raise"}

\* _set_servo_angles: what the hardware holds afterwards
SetServoAngles(p, outcome, pan_angle, tilt_angle) ==
  CASE outcome = "ok" ->
         [pan |-> PanAngleToServo(pan_angle), tilt |-> TiltAngleToServo(tilt_angle)]
    [] outcome = "raise_tilt" ->
         [p EXCEPT !.pan = PanAngleToServo(pan_angle)]
    [] OTHER -> p

(* ----------------------------- call frames ---------------------------- *)

NoCall == [op |-> "none", obj |-> 0, pan |-> 0, tilt |-> 0, pc |-> "done",
           ret |-> FALSE, ready |-> FALSE, raised |-> FALSE, wrote |-> FALSE,
           pre_pan |-> 0, pre_tilt |-> 0]

\* a thread enters a method of controller number obj, whose state is s
Enter(s, op, obj, pan, tilt) ==
  [op |-> op, obj |-> obj, pan |-> pan, tilt |-> tilt, pc |-> "enter",
   ret |-> FALSE, ready |-> IsReady(s), raised |-> FALSE, wrote |-> FALSE,
   pre_pan |-> s.current_pan_angle,
   pre_tilt |-> s.current_tilt_angle]

InCall(t) == call[t].pc # "done"

Return(c, r) == [c EXCEPT !.pc = "done", !.ret = r]

\* the driver outcomes still possible: exceptions are counted up to MaxFaults
Possible(outcomes) == IF faults < MaxFaults THEN outcomes ELSE {"ok"}

Count(outcome) == faults' = IF outcome = "ok" THEN faults ELSE faults + 1

\* the except clause of the setters, lines 176-179, 209-212 and 243-246
OnDriverErrorStatusKept(s) == s

OnDriverError(s) == [s EXCEPT !.status = "error"]

\* set_angles, lines 225-233: the readiness and range checks
SetAnglesEnter(t) ==
  LET c == call[t]  s == servo[c.obj] IN
  /\ c.op = "set_angles" /\ c.pc = "enter"
  /\ IF ~IsReady(s) \/ ~is_angle_safe(s, c.pan, c.tilt)
     THEN /\ call' = [call EXCEPT ![t] = Return(c, FALSE)]
          /\ UNCHANGED servo
     ELSE /\ servo' = [servo EXCEPT ![c.obj].status = "moving"]
          /\ call' = [call EXCEPT ![t].pc = "write"]
  /\ UNCHANGED <<phys, faults>>

\* set_angles, lines 234-236 and 243-246: the driver writes and the stored angles
SetAnglesWrite(t) ==
  LET c == call[t] IN
  /\ c.op = "set_angles" /\ c.pc = "write"
  /\ \E outcome \in Possible(WriteOutcomes) :
       /\ phys' = SetServoAngles(phys, outcome, c.pan, c.tilt)
       /\ Count(outcome)
       /\ IF outcome = "ok"
          THEN /\ servo' = [servo EXCEPT ![c.obj].current_pan_angle = c.pan,
                                         ![c.obj].current_tilt_angle = c.tilt]
               /\ call' = [call EXCEPT ![t].pc = "settle", ![t].wrote = TRUE]
          ELSE /\ servo' = [servo EXCEPT ![c.obj] = OnDriverError(@)]
               /\ call' = [call EXCEPT ![t] =
                             [Return(c, FALSE) EXCEPT !.raised = TRUE,
                                                      !.wrote = (outcome = "raise_tilt")]]

\* set_angles, lines 237-241: the settle delay, then READY
SetAnglesSettle(t) ==
  LET c == call[t] IN
  /\ c.op = "set_angles" /\ c.pc = "settle"
  /\ servo' = [servo EXCEPT ![c.obj].status = "ready"]
  /\ call' = [call EXCEPT ![t] = Return(c, TRUE)]
  /\ UNCHANGED <<phys, faults>>

\* set_pan_angle / set_tilt_angle, lines 158-166 and 191-199
SetAxisEnter(t) ==
  LET c == call[t]  s == servo[c.obj] IN
  /\ c.op \in {"set_pan_angle", "set_tilt_angle"} /\ c.pc = "enter"
  /\ IF \/ ~IsReady(s)
        \/ (c.op = "set_pan_angle" /\ ~IsPanAngleSafe(s, c.pan))
        \/ (c.op = "set_tilt_angle" /\ ~IsTiltAngleSafe(s, c.tilt))
     THEN /\ call' = [call EXCEPT ![t] = Return(c, FALSE)]
          /\ UNCHANGED servo
     ELSE /\ servo' = [servo EXCEPT ![c.obj].status = "moving"]
          /\ call' = [call EXCEPT ![t].pc = "write"]
  /\ UNCHANGED <<phys, faults>>

\* set_pan_angle / set_tilt_angle, lines 167-169, 176-179, 200-202, 209-212
SetAxisWrite(t) ==
  LET c == call[t] IN
  /\ c.op \in {"set_pan_angle", "set_tilt_angle"} /\ c.pc = "write"
  /\ \E outcome \in Possible(SingleOutcomes) :
       /\ Count(outcome)
       /\ IF outcome = "ok"
          THEN /\ IF c.op = "set_pan_angle"
                  THEN /\ phys' = [phys EXCEPT !.pan = PanAngleToServo(c.pan)]
                       /\ servo' = [servo EXCEPT ![c.obj].current_pan_angle = c.pan]
                  ELSE /\ phys' = [phys EXCEPT !.tilt = TiltAngleToServo(c.tilt)]
                       /\ servo' = [servo EXCEPT ![c.obj].current_tilt_angle = c.tilt]
               /\ call' = [call EXCEPT ![t].pc = "settle", ![t].wrote = TRUE]
          ELSE /\ servo' = [servo EXCEPT ![c.obj] = OnDriverError(@)]
               /\ call' = [call EXCEPT ![t] = [Return(c, FALSE) EXCEPT !.raised = TRUE]]
               /\ UNCHANGED phys

\* set_pan_angle / set_tilt_angle, lines 170-174 and 203-207
SetAxisSettle(t) ==
  LET c == call[t] IN
  /\ c.op \in {"set_pan_angle", "set_tilt_angle"} /\ c.pc = "settle"
  /\ servo' = [servo EXCEPT ![c.obj].status = "ready"]
  /\ call' = [call EXCEPT ![t] = Return(c, TRUE)]
  /\ UNCHANGED <<phys, faults>>

\* initialize, lines 116-129: INITIALIZING, then the bus and driver bring-up
InitializeEnter(t) ==
  LET c == call[t] IN
  /\ c.op = "initialize" /\ c.pc = "enter"
  /\ \E outcome \in Possible(SingleOutcomes) :
       /\ Count(outcome)
       /\ IF outcome = "ok"
          THEN /\ servo' = [servo EXCEPT ![c.obj].status = "initializing",
                                         ![c.obj].hw = TRUE]
               /\ call' = [call EXCEPT ![t].pc = "write"]
          ELSE /\ servo' = [servo EXCEPT ![c.obj].status = "error"]
               /\ call' = [call EXCEPT ![t] = [Return(c, FALSE) EXCEPT !.raised = TRUE]]
  /\ UNCHANGED phys

\* initialize, line 133: the unchecked centre write
InitializeWrite(t) ==
  LET c == call[t] IN
  /\ c.op = "initialize" /\ c.pc = "write"
  /\ \E outcome \in Possible(WriteOutcomes) :
       /\ phys' = SetServoAngles(phys, outcome, 0, 0)
       /\ Count(outcome)
       /\ IF outcome = "ok"
          THEN /\ call' = [call EXCEPT ![t].pc = "settle", ![t].wrote = TRUE]
               /\ UNCHANGED servo
          ELSE /\ servo' = [servo EXCEPT ![c.obj].status = "error"]
               /\ call' = [call EXCEPT ![t] =
                             [Return(c, FALSE) EXCEPT !.raised = TRUE,
                                                      !.wrote = (outcome = "raise_tilt")]]

\* initialize, lines 134-141: the 2 s wait, the stored angles, READY
InitializeSettle(t) ==
  LET c == call[t] IN
  /\ c.op = "initialize" /\ c.pc = "settle"
  /\ servo' = [servo EXCEPT ![c.obj].current_pan_angle = 0,
                            ![c.obj].current_tilt_angle = 0,
                            ![c.obj].status = "ready"]
  /\ call' = [call EXCEPT ![t] = Return(c, TRUE)]
  /\ UNCHANGED <<phys, faults>>

\* emergency_stop, lines 335-336: the except clause ends the call normally;
\* a call left by an exception would end at "raised"
EmergencyStopPropagates(outcome) == IF outcome = "ok" THEN "done" ELSE "raised"

EmergencyStopExit(outcome) == "done"

\* emergency_stop, lines 323-336
EmergencyStop(t) ==
  LET c == call[t] IN
  /\ c.op = "emergency_stop" /\ c.pc = "enter"
  /\ servo' = [servo EXCEPT ![c.obj].status = "error"]
  /\ IF servo[c.obj].hw
     THEN \E outcome \in Possible(WriteOutcomes) :
            /\ phys' = SetServoAngles(phys, outcome, 0, 0)
            /\ Count(outcome)
            /\ call' = [call EXCEPT ![t] =
                          [Return(c, TRUE) EXCEPT !.pc = EmergencyStopExit(outcome),
                                                  !.raised = (outcome # "ok"),
                                                  !.wrote = (outcome # "raise_pan")]]
     ELSE /\ call' = [call EXCEPT ![t] = Return(c, TRUE)]
          /\ UNCHANGED <<phys, faults>>

\* cleanup, lines 340-347: the unchecked centre write
CleanupEnter(t) ==
  LET c == call[t]  s == servo[c.obj] IN
  /\ c.op = "cleanup" /\ c.pc = "enter"
  /\ IF s.status = "uninitialized"
     THEN /\ call' = [call EXCEPT ![t] = Return(c, TRUE)]
          /\ UNCHANGED <<phys, faults>>
     ELSE IF s.hw
     THEN \E outcome \in Possible(WriteOutcomes) :
            /\ phys' = SetServoAngles(phys, outcome, 0, 0)
            /\ Count(outcome)
            /\ IF outcome = "ok"
               THEN call' = [call EXCEPT ![t].pc = "settle", ![t].wrote = TRUE]
               ELSE call' = [call EXCEPT ![t] =
                               [Return(c, TRUE) EXCEPT !.raised = TRUE,
                                                       !.wrote = (outcome = "raise_tilt")]]
     ELSE /\ call' = [call EXCEPT ![t].pc = "settle"]
          /\ UNCHANGED <<phys, faults>>
  /\ UNCHANGED servo

\* cleanup, lines 347-359: the 1 s wait, the PWM shutdown, UNINITIALIZED
CleanupFinish(t) ==
  LET c == call[t] IN
  /\ c.op = "cleanup" /\ c.pc = "settle"
  /\ \E outcome \in Possible(SingleOutcomes) :
       /\ Count(outcome)
       /\ IF outcome = "ok"
          THEN /\ servo' = [servo EXCEPT ![c.obj].status = "uninitialized"]
               /\ call' = [call EXCEPT ![t] = Return(c, TRUE)]
          ELSE /\ call' = [call EXCEPT ![t] = [Return(c, TRUE) EXCEPT !.raised = TRUE]]
               /\ UNCHANGED servo
  /\ UNCHANGED phys

\* one step of the ServoController method thread t is executing
ServoStep(t) ==
  \/ SetAnglesEnter(t)
  \/ SetAnglesWrite(t)
  \/ SetAnglesSettle(t)
  \/ SetAxisEnter(t)
  \/ SetAxisWrite(t)
  \/ SetAxisSettle(t)
  \/ InitializeEnter(t)
  \/ InitializeWrite(t)
  \/ InitializeSettle(t)
  \/ EmergencyStop(t)
  \/ CleanupEnter(t)
  \/ CleanupFinish(t)

(* ------------------------ TrackingCoordinator ------------------------- *)

\* what the detector hands to the coordinator: the coordinator's interface
\* and its tests use dicts, modules/yolo_detector.py yields Detection objects
DetKinds == {"dict", "object"}

\* bounding-box centres reported by the detector (pixels)
DetCenters == {<<320, 479>>}

NoDetection == [kind |-> "none", center |-> <<0, 0>>, failed |-> FALSE]

\* detect_pets or get_best_detection raised
Raised == [kind |-> "raised", center |-> <<0, 0>>, failed |-> TRUE]

\* values of 30 * sin(0.1 * t) tried by the sweep
SweepAngles == {Deg(-30), Deg(0), Deg(30)}

\* detections counted before the detector stays silent
MaxDetections == 10

\* last value of the clock
MaxTime == 6

NoTime == 0 - 1

image_width == 640

image_height == 480

lost_target_timeout == 5

\* gains in model units per pixel (0.0156 and 0.0208 degree per pixel)
pan_gain == 156

tilt_gain == 208

max_correction == Deg(15)

deadband == 5

show_display == TRUE

Abs(x) == IF x < 0 THEN 0 - x ELSE x

NoClip(x, lo, hi) == x

Clip(x, lo, hi) == IF x < lo THEN lo ELSE IF x > hi THEN hi ELSE x

\* SimpleProportionalController.__init__ with its default parameters
NewController ==
  [pan_gain |-> pan_gain, tilt_gain |-> tilt_gain,
   max_correction |-> max_correction, deadband |-> deadband,
   status |-> "ready", last_error |-> <<0, 0>>, last_output |-> <<0, 0>>,
   total_corrections |-> 0,
   op |-> "none", center |-> <<0, 0>>, result |-> <<0, 0>>, computed |-> FALSE]

\* calculate_correction, lines 143-146: an error inside the deadband counts
\* as 0, each axis on its own
DeadbandOfBothAxes(c, error, other) ==
  IF Abs(error) < c.deadband /\ Abs(other) < c.deadband THEN 0 ELSE error

Deadband(c, error, other) == IF Abs(error) < c.deadband THEN 0 ELSE error

\* calculate_correction, line 150: the image's y axis points down
TiltErrorNotInverted(y_error) == y_error

TiltError(y_error) == 0 - y_error

\* calculate_correction, lines 139-154: the correction controller c computes
Correction(c, center) ==
  LET ex0 == center[1] - (image_width \div 2)
      ey0 == center[2] - (image_height \div 2)
      x_error == Deadband(c, ex0, ey0)
      y_error == Deadband(c, ey0, ex0)
  IN [error |-> <<x_error, y_error>>,
      output |-> <<Clip(x_error * c.pan_gain,
                        0 - c.max_correction, c.max_correction),
                   Clip(TiltError(y_error) * c.tilt_gain,
                        0 - c.max_correction, c.max_correction)>>]

\* SimpleProportionalController.calculate_correction of the coordinator's
\* controller, which keeps the default parameters
calculate_correction(center) == Correction(NewController, center).output

\* SystemStatus()
NewStatus ==
  [mode |-> "standby", target_detected |-> FALSE,
   pan_angle |-> 0, tilt_angle |-> 0, correction_applied |-> <<0, 0>>,
   last_detection_time |-> NoTime, total_detections |-> 0]

\* TrackingCoordinator.__init__
NewCoordinator(kind) ==
  [is_running |-> FALSE, camera |-> "none", servo_controller |-> 0,
   yolo_detector |-> "none", simple_p_controller |-> "none",
   main_thread |-> NoThread, detector_yields |-> kind]

\* the locals of a thread; app is the place of the main thread in main.py
NoLocals == [det |-> NoDetection, new_pan |-> 0, new_tilt |-> 0,
             corr |-> <<0, 0>>, join |-> NoThread, cleaned |-> FALSE,
             frame_failed |-> FALSE, app |-> "none"]

NoInit == [cam |-> FALSE, servo |-> FALSE, det |-> FALSE, ret |-> "none"]

\* _update_tracking_control, lines 300-301: the switch to TRACKING
ModeKept(mode) == mode

TrackingModeOnDetection(mode) == IF mode # "tracking" THEN "tracking" ELSE mode

\* _update_tracking_control, lines 336-337: the switch back to SCANNING
ScanningModeOnTimeout(mode) == IF mode = "tracking" THEN "scanning" ELSE mode

\* _update_tracking_control, lines 333-334: the lost-target test at time t
TargetLostAtTimeout(s, t) ==
  /\ s.last_detection_time # NoTime
  /\ t - s.last_detection_time >= lost_target_timeout

TargetLostWithoutTimeout(s, t) == s.last_detection_time # NoTime

TargetLost(s, t) ==
  /\ s.last_detection_time # NoTime
  /\ t - s.last_detection_time > lost_target_timeout

\* initialize_system, line 145: the test of ServoController.initialize()
ServoInitializedIgnored(c) == TRUE

ServoInitialized(c) == c.ret

\* Thread.is_alive()
Alive(t) == t \in Workers /\ tpc[t] \notin {"unborn", "dead"}

NextWorker == 1 + Cardinality({w \in Workers : tpc[w] # "unborn"})

DefaultServo == NewServo(<<Deg(-90), Deg(90)>>, <<Deg(-45), Deg(45)>>)

\* a call of a ServoController method made from the coordinator
CallServo(t, op, pan, tilt) ==
  call' = [call EXCEPT ![t] = Enter(servo[co.servo_controller], op,
                                    co.servo_controller, pan, tilt)]

\* start_tracking, lines 184-190, with initialize_system, lines 125-145
StartTracking ==
  /\ tpc[MainThread] = "idle"
  /\ Len(servo) < MaxStarts
  /\ IF co.is_running
     THEN UNCHANGED vars
     ELSE \E cam_ok \in BOOLEAN :
            IF cam_ok
            THEN /\ servo' = Append(servo, DefaultServo)
                 /\ co' = [co EXCEPT !.camera = "open",
                                     !.servo_controller = Len(servo) + 1]
                 /\ call' = [call EXCEPT ![MainThread] =
                               Enter(DefaultServo, "initialize", Len(servo) + 1, 0, 0)]
                 /\ tpc' = [tpc EXCEPT ![MainThread] = "init_servo"]
                 /\ initrec' = [NoInit EXCEPT !.cam = cam_ok]
                 /\ UNCHANGED <<phys, faults, uvars, loc, status, lock, now>>
            ELSE /\ co' = [co EXCEPT !.camera = "closed"]
                 /\ initrec' = [NoInit EXCEPT !.cam = cam_ok, !.ret = "False"]
                 /\ UNCHANGED <<servo, phys, faults, uvars, call, tpc, loc, status,
                                lock, now>>

\* initialize_system, lines 145-150: the servo controller came up or not
InitServoDone ==
  /\ tpc[MainThread] = "init_servo" /\ ~InCall(MainThread)
  /\ IF ServoInitialized(call[MainThread])
     THEN /\ CallServo(MainThread, "set_angles", 0, 0)
          /\ tpc' = [tpc EXCEPT ![MainThread] = "init_center"]
          /\ initrec' = [initrec EXCEPT !.servo = call[MainThread].ret]
     ELSE /\ call' = [call EXCEPT ![MainThread] = NoCall]
          /\ tpc' = [tpc EXCEPT ![MainThread] = "idle"]
          /\ initrec' = [initrec EXCEPT !.servo = call[MainThread].ret,
                                        !.ret = "False"]
  /\ UNCHANGED <<servo, phys, faults, uvars, loc, status, co, lock, now>>

\* initialize_system, lines 151-176, and start_tracking, lines 192-197
InitCenterDone ==
  /\ tpc[MainThread] = "init_center" /\ ~InCall(MainThread)
  /\ call' = [call EXCEPT ![MainThread] = NoCall]
  /\ \E det_ok \in BOOLEAN :
       IF det_ok
       THEN /\ status' = [status EXCEPT !.pan_angle = 0, !.tilt_angle = 0,
                                        !.mode = "scanning"]
            /\ co' = [co EXCEPT !.yolo_detector = "ready",
                                !.simple_p_controller = "ready",
                                !.is_running = TRUE,
                                !.main_thread = NextWorker]
            /\ tpc' = [tpc EXCEPT ![MainThread] = "idle", ![NextWorker] = "loop"]
            /\ initrec' = [initrec EXCEPT !.det = det_ok, !.ret = "True"]
       ELSE /\ status' = [status EXCEPT !.pan_angle = 0, !.tilt_angle = 0]
            /\ co' = [co EXCEPT !.yolo_detector = "error"]
            /\ tpc' = [tpc EXCEPT ![MainThread] = "idle"]
            /\ initrec' = [initrec EXCEPT !.det = det_ok, !.ret = "False"]
  /\ UNCHANGED <<servo, phys, faults, uvars, loc, lock, now>>

\* Thread.join(timeout=2.0) returns: the thread ended, or the timeout expired
JoinNoTimeout(target, timed_out) == ~Alive(target)

JoinReturns(target, timed_out) == timed_out \/ ~Alive(target)

\* stop_tracking, lines 204-209
StopBegin(t) ==
  /\ co' = [co EXCEPT !.is_running = FALSE]
  /\ IF co.main_thread # NoThread /\ Alive(co.main_thread)
     THEN IF co.main_thread = t
          THEN \* join() of the current thread raises RuntimeError
               /\ tpc' = [tpc EXCEPT ![t] = "dead"]
               /\ loc' = [loc EXCEPT ![t].cleaned = FALSE]
          ELSE /\ tpc' = [tpc EXCEPT ![t] = "join"]
               /\ loc' = [loc EXCEPT ![t].join = co.main_thread,
                                     ![t].cleaned = FALSE]
     ELSE /\ tpc' = [tpc EXCEPT ![t] = "cleanup"]
          /\ loc' = [loc EXCEPT ![t].cleaned = FALSE]
  /\ UNCHANGED <<servo, phys, faults, uvars, call, status, lock, initrec, now>>

\* stop_tracking called from outside the worker
StopTracking == tpc[MainThread] = "idle" /\ StopBegin(MainThread)

\* stop_tracking, line 209: the bounded wait for the worker
StopJoin(t) ==
  /\ tpc[t] = "join"
  /\ \E timed_out \in BOOLEAN : JoinReturns(loc[t].join, timed_out)
  /\ tpc' = [tpc EXCEPT ![t] = "cleanup"]
  /\ loc' = [loc EXCEPT ![t].join = NoThread]
  /\ UNCHANGED <<servo, phys, faults, uvars, call, status, co, lock, initrec, now>>

\* where stop_tracking returns to: the caller, or the end of the worker thread
StopReturn(t) == IF t = MainThread THEN "idle" ELSE "dead"

\* _cleanup_resources, lines 490-497
CleanupModules(c) ==
  [c EXCEPT !.yolo_detector = IF @ = "none" THEN @ ELSE "uninitialized",
            !.simple_p_controller = IF @ = "none" THEN @ ELSE "uninitialized"]

\* _cleanup_resources, lines 474-486
CleanupResources(t) ==
  /\ tpc[t] = "cleanup"
  /\ IF co.servo_controller # 0
     THEN /\ co' = [co EXCEPT !.camera = IF @ = "none" THEN @ ELSE "released"]
          /\ CallServo(t, "set_angles", 0, 0)
          /\ tpc' = [tpc EXCEPT ![t] = "cl_center"]
          /\ UNCHANGED loc
     ELSE /\ co' = CleanupModules(
                     [co EXCEPT !.camera = IF @ = "none" THEN @ ELSE "released"])
          /\ tpc' = [tpc EXCEPT ![t] = StopReturn(t)]
          /\ loc' = [loc EXCEPT ![t].cleaned = TRUE]
          /\ UNCHANGED call
  /\ UNCHANGED <<servo, phys, faults, uvars, status, lock, initrec, now>>

\* _cleanup_resources, lines 486-487: move_to_center returned, cleanup is next
CleanupCenterDone(t) ==
  /\ tpc[t] = "cl_center" /\ ~InCall(t)
  /\ CallServo(t, "cleanup", 0, 0)
  /\ tpc' = [tpc EXCEPT ![t] = "cl_servo"]
  /\ UNCHANGED <<servo, phys, faults, uvars, loc, status, co, lock, initrec, now>>

\* _cleanup_resources, lines 488-497, and the return of stop_tracking
CleanupServoDone(t) ==
  /\ tpc[t] = "cl_servo" /\ ~InCall(t)
  /\ call' = [call EXCEPT ![t] = NoCall]
  /\ co' = CleanupModules(co)
  /\ tpc' = [tpc EXCEPT ![t] = StopReturn(t)]
  /\ loc' = [loc EXCEPT ![t].cleaned = TRUE]
  /\ UNCHANGED <<servo, phys, faults, uvars, status, lock, initrec, now>>

StopStep(t) ==
  \/ StopJoin(t)
  \/ CleanupResources(t)
  \/ CleanupCenterDone(t)
  \/ CleanupServoDone(t)

\* get_system_status, lines 456-470
GetSystemStatus ==
  /\ tpc[MainThread] = "idle"
  /\ lock = NoThread
  /\ UNCHANGED vars

\* what the detector does with one frame: nothing found, a best detection,
\* or an exception
Detections ==
  {NoDetection, Raised} \cup
  IF co.yolo_detector = "ready" /\ status.total_detections < MaxDetections
  THEN {[kind |-> co.detector_yields, center |-> c, failed |-> FALSE] :
          c \in DetCenters}
  ELSE {}

\* _process_detection, lines 271-284: an exception becomes the empty list
ProcessDetectionPropagating(d) == d

ProcessDetection(d) ==
  IF d.kind = "raised" THEN [NoDetection EXCEPT !.failed = TRUE] ELSE d

\* _main_loop, line 225: the test of the result of camera.read()
FrameMissingIgnored(ret) == FALSE

FrameMissing(ret) == ~ret

\* _main_loop, lines 220-231: the loop test, the frame, the detection
LoopBegin(w) ==
  /\ tpc[w] = "loop"
  /\ IF ~co.is_running
     THEN /\ tpc' = [tpc EXCEPT ![w] = "finally"]
          /\ UNCHANGED loc
     ELSE \E ret \in (IF co.camera = "open" THEN BOOLEAN ELSE {FALSE}) :
            IF FrameMissing(ret)
            THEN /\ loc' = [loc EXCEPT ![w].frame_failed = TRUE]
                 /\ UNCHANGED tpc
            ELSE \E r \in Detections :
                   LET d == ProcessDetection(r) IN
                   IF d.kind = "raised"
                   THEN \* an exception in the loop body, lines 256-259
                        /\ loc' = [loc EXCEPT ![w].frame_failed = ~ret]
                        /\ tpc' = [tpc EXCEPT ![w] = "finally"]
                   ELSE /\ loc' = [loc EXCEPT ![w].det = d,
                                              ![w].frame_failed = ~ret]
                        /\ tpc' = [tpc EXCEPT ![w] = "control"]
  /\ UNCHANGED <<servo, phys, faults, uvars, call, status, co, lock, initrec, now>>

\* _update_tracking_control, lines 294-326, up to the call of set_angles
ControlDetected(w) ==
  LET d == loc[w].det
      correction == calculate_correction(d.center)
      new_pan == status.pan_angle + correction[1]
      new_tilt == status.tilt_angle + correction[2]
  IN
  /\ tpc[w] = "control" /\ lock = NoThread
  /\ d.kind # "none"
  /\ IF d.kind = "object"
     THEN \* detection['class_name'] / detection['bbox'] raises TypeError
          /\ status' = [status EXCEPT !.mode = TrackingModeOnDetection(@)]
          /\ tpc' = [tpc EXCEPT ![w] = "post"]
          /\ UNCHANGED <<call, loc, lock>>
     ELSE IF is_angle_safe(servo[co.servo_controller], new_pan, new_tilt)
     THEN /\ status' = [status EXCEPT !.mode = TrackingModeOnDetection(@)]
          /\ lock' = w
          /\ CallServo(w, "set_angles", new_pan, new_tilt)
          /\ loc' = [loc EXCEPT ![w].new_pan = new_pan, ![w].new_tilt = new_tilt,
                                ![w].corr = correction]
          /\ tpc' = [tpc EXCEPT ![w] = "track_servo"]
     ELSE /\ status' = [status EXCEPT !.mode = TrackingModeOnDetection(@),
                                      !.target_detected = TRUE,
                                      !.last_detection_time = now]
          /\ tpc' = [tpc EXCEPT ![w] = "post"]
          /\ UNCHANGED <<call, loc, lock>>
  /\ UNCHANGED <<servo, phys, faults, uvars, co, initrec, now>>

\* _update_tracking_control, lines 318-326: after set_angles returned
ControlDetectedDone(w) ==
  /\ tpc[w] = "track_servo" /\ ~InCall(w)
  /\ status' = [status EXCEPT !.pan_angle = loc[w].new_pan,
                              !.tilt_angle = loc[w].new_tilt,
                              !.correction_applied = loc[w].corr,
                              !.target_detected = TRUE,
                              !.last_detection_time = now]
  /\ lock' = NoThread
  /\ call' = [call EXCEPT ![w] = NoCall]
  /\ loc' = [loc EXCEPT ![w].new_pan = 0, ![w].new_tilt = 0, ![w].corr = <<0, 0>>]
  /\ tpc' = [tpc EXCEPT ![w] = "post"]
  /\ UNCHANGED <<servo, phys, faults, uvars, co, initrec, now>>

\* _update_tracking_control, lines 328-341, and _execute_scan_pattern,
\* lines 348-355, up to the call of set_angles
ControlLost(w) ==
  /\ tpc[w] = "control" /\ lock = NoThread
  /\ loc[w].det.kind = "none"
  /\ IF TargetLost(status, now)
     THEN \E angle_offset \in SweepAngles :
            IF is_angle_safe(servo[co.servo_controller], angle_offset, 0)
            THEN /\ status' = [status EXCEPT !.target_detected = FALSE,
                                             !.mode = ScanningModeOnTimeout(@)]
                 /\ lock' = w
                 /\ CallServo(w, "set_angles", angle_offset, 0)
                 /\ loc' = [loc EXCEPT ![w].new_pan = angle_offset]
                 /\ tpc' = [tpc EXCEPT ![w] = "scan_servo"]
            ELSE /\ status' = [status EXCEPT !.target_detected = FALSE,
                                             !.mode = ScanningModeOnTimeout(@)]
                 /\ tpc' = [tpc EXCEPT ![w] = "post"]
                 /\ UNCHANGED <<call, loc, lock>>
     ELSE /\ status' = [status EXCEPT !.target_detected = FALSE]
          /\ tpc' = [tpc EXCEPT ![w] = "post"]
          /\ UNCHANGED <<call, loc, lock>>
  /\ UNCHANGED <<servo, phys, faults, uvars, co, initrec, now>>

\* _execute_scan_pattern, lines 356-357: the status angles of a sweep step
ScanStatusKeepingTilt(s, new_pan) == [s EXCEPT !.pan_angle = new_pan]

ScanStatus(s, new_pan) == [s EXCEPT !.pan_angle = new_pan, !.tilt_angle = 0]

\* _execute_scan_pattern, lines 356-357: after set_angles returned
ControlLostDone(w) ==
  /\ tpc[w] = "scan_servo" /\ ~InCall(w)
  /\ status' = ScanStatus(status, loc[w].new_pan)
  /\ lock' = NoThread
  /\ call' = [call EXCEPT ![w] = NoCall]
  /\ loc' = [loc EXCEPT ![w].new_pan = 0]
  /\ tpc' = [tpc EXCEPT ![w] = "post"]
  /\ UNCHANGED <<servo, phys, faults, uvars, co, initrec, now>>

\* _main_loop, lines 236-256: the 'q' key or an exception of the display ends
\* the loop; otherwise _update_system_status, lines 444-447
LoopEnd(w) ==
  /\ tpc[w] = "post"
  /\ \E quit \in (IF show_display THEN BOOLEAN ELSE {FALSE}) :
       IF quit
       THEN /\ tpc' = [tpc EXCEPT ![w] = "finally"]
            /\ UNCHANGED status
       ELSE /\ lock = NoThread
            /\ status' = [status EXCEPT !.total_detections =
                            IF loc[w].det.kind # "none" THEN @ + 1 ELSE @]
            /\ tpc' = [tpc EXCEPT ![w] = "loop"]
  /\ loc' = [loc EXCEPT ![w].det = NoDetection]
  /\ UNCHANGED <<servo, phys, faults, uvars, call, co, lock, initrec, now>>

\* _main_loop, lines 258-259: the worker calls stop_tracking itself
LoopFinally(w) == tpc[w] = "finally" /\ StopBegin(w)

WorkerStep(w) ==
  \/ LoopBegin(w)
  \/ ControlDetected(w)
  \/ ControlDetectedDone(w)
  \/ ControlLost(w)
  \/ ControlLostDone(w)
  \/ LoopEnd(w)
  \/ LoopFinally(w)

\* a thread inside a ServoController method advances by one step
MethodStep(t) == ServoStep(t) /\ UNCHANGED cvars

\* the clock advances
Tick ==
  /\ now < MaxTime
  /\ now' = now + 1
  /\ UNCHANGED <<servo, phys, faults, uvars, call, tpc, loc, status, co, lock, initrec>>

(* ---------------- YOLODetector: the results of one frame -------------- *)

\* boxes the model reports for one frame
MaxBoxes == 4

\* confidences of the boxes, in percent
Confidences == {60, 70, 90}

\* class ids of the boxes: person, cat, dog
BoxClasses == {0, 15, 16}

\* YOLODetector.target_classes
target_classes == {15, 16}

\* None
NoBest == [class_id |-> 0, confidence |-> 0, box |-> 0]

\* a YOLODetector before a frame: nothing detected, nothing asked
NewDetector ==
  [detections |-> <<>>, boxes |-> 0, best |-> NoBest, results |-> <<>>,
   op |-> "none"]

\* sorted(..., key=confidence, reverse=True) keeps a before a later d when
\* a's confidence is not smaller: the sort is stable
StaysBeforeOnlyIfGreater(a, d) == a.confidence > d.confidence

StaysBefore(a, d) == a.confidence >= d.confidence

RECURSIVE InsertByConfidence(_, _)
InsertByConfidence(sorted, d) ==
  IF sorted = <<>> THEN <<d>>
  ELSE IF StaysBefore(Head(sorted), d)
       THEN <<Head(sorted)>> \o InsertByConfidence(Tail(sorted), d)
       ELSE <<d>> \o sorted

RECURSIVE SortedByConfidence(_)
SortedByConfidence(detections) ==
  IF detections = <<>> THEN <<>>
  ELSE InsertByConfidence(
         SortedByConfidence(SubSeq(detections, 1, Len(detections) - 1)),
         detections[Len(detections)])

\* YOLODetector.get_best_detection
get_best_detection(detections) ==
  IF detections = <<>> THEN NoBest ELSE Head(SortedByConfidence(detections))

\* _process_detection, lines 271-280: the list handed to the control step
process_detection(detections) ==
  IF detections # <<>>
  THEN LET best_detection == get_best_detection(detections) IN
       IF best_detection # NoBest THEN <<best_detection>> ELSE <<>>
  ELSE <<>>

\* detect_pets, lines 190-204: one box of the frame, kept when its class is
\* a target class
DetectBox ==
  /\ yolo.op \in {"none", "detect_pets"}
  /\ yolo.boxes < MaxBoxes
  /\ \E class_id \in BoxClasses, confidence \in Confidences :
       yolo' = [yolo EXCEPT
                  !.boxes = @ + 1,
                  !.op = "detect_pets",
                  !.detections =
                     IF class_id \in target_classes
                     THEN Append(@, [class_id |-> class_id,
                                     confidence |-> confidence,
                                     box |-> yolo.boxes + 1])
                     ELSE @]
  /\ UNCHANGED <<ovars, ctl, pid>>

CallGetBestDetection ==
  /\ yolo.op \in {"none", "detect_pets"}
  /\ yolo' = [yolo EXCEPT !.best = get_best_detection(yolo.detections),
                          !.op = "get_best_detection"]
  /\ UNCHANGED <<ovars, ctl, pid>>

CallProcessDetection ==
  /\ yolo.op \in {"none", "detect_pets"}
  /\ yolo' = [yolo EXCEPT !.results = process_detection(yolo.detections),
                          !.op = "process_detection"]
  /\ UNCHANGED <<ovars, ctl, pid>>

(* ------- SimpleProportionalController: calls from outside ------------ *)

\* calculate_correction calls counted in total_corrections
MaxCalls == 2

\* detection centres passed to calculate_correction (pixels)
TestXs == {0 - 100, 316, 320, 325, 1000}

TestYs == {0 - 200, 240, 244, 245, 320}

\* parameters passed to set_gains, set_max_correction and set_deadband
TestGains == {<<156, 208>>, <<0 - 156, 208>>}

TestMaxCorrections == {Deg(15), Deg(1)}

TestDeadbands == {0, 5}

\* calculate_correction, lines 129-175, with a centre (x, y)
CallCalculateCorrection ==
  /\ ctl.total_corrections < MaxCalls
  /\ \E x \in TestXs, y \in TestYs :
       LET r == Correction(ctl, <<x, y>>) IN
       IF ctl.status = "error"
       THEN ctl' = [ctl EXCEPT !.op = "calculate_correction",
                               !.center = <<x, y>>,
                               !.result = <<0, 0>>,
                               !.computed = FALSE]
       ELSE ctl' = [ctl EXCEPT !.op = "calculate_correction",
                               !.center = <<x, y>>,
                               !.result = r.output,
                               !.computed = TRUE,
                               !.last_error = r.error,
                               !.last_output = r.output,
                               !.total_corrections = @ + 1,
                               !.status = "ready"]
  /\ UNCHANGED <<ovars, yolo, pid>>

\* calculate_correction, lines 129-133 and 177-180, with an argument that is
\* no pair of numbers: the exception is caught, the status becomes ERROR
CallCalculateCorrectionMalformed ==
  /\ ctl' = [ctl EXCEPT !.op = "calculate_correction_malformed",
                        !.center = <<0, 0>>,
                        !.result = <<0, 0>>,
                        !.computed = FALSE,
                        !.status = "error"]
  /\ UNCHANGED <<ovars, yolo, pid>>

\* set_gains, lines 211-225
CallSetGains ==
  /\ \E g \in TestGains :
       ctl' = [ctl EXCEPT !.op = "set_gains",
                          !.pan_gain = g[1], !.tilt_gain = g[2]]
  /\ UNCHANGED <<ovars, yolo, pid>>

\* set_max_correction, lines 227-237
CallSetMaxCorrection ==
  /\ \E m \in TestMaxCorrections :
       ctl' = [ctl EXCEPT !.op = "set_max_correction", !.max_correction = m]
  /\ UNCHANGED <<ovars, yolo, pid>>

\* set_deadband, lines 239-249
CallSetDeadband ==
  /\ \E d \in TestDeadbands :
       ctl' = [ctl EXCEPT !.op = "set_deadband", !.deadband = d]
  /\ UNCHANGED <<ovars, yolo, pid>>

(* ----------------- PIDController: calls from outside ---------------- *)
(* Time is counted in ticks of sample_time (0.01 s), the integral in error *)
(* times ticks, the output and its terms in 1/100 of the error unit.       *)

\* update calls made on one controller
MaxUpdates == 4

\* PIDController.sample_time, in ticks
sample_time == 1

\* ticks that pass between two calls
Elapses == {0, 1, 2}

\* errors passed to update
TestErrors == {0 - 3, 2}

\* (kP, kI, kD) and integral_limits passed to the constructor; the output
\* limits keep their default (-90, 90)
TestPidGains == {<<1, 1, 2>>}

TestIntegralLimits == {<<0 - 5, 5>>, <<0 - 3, 8>>}

\* arguments of set_output_limits and set_integral_limits
TestLimitArgs == {<<0 - 2, 2>>, <<5, 5>>, <<5, 2>>}

\* PIDController.__init__
NewPID(gains, integral_limits) ==
  [kP |-> gains[1], kI |-> gains[2], kD |-> gains[3],
   output_limits |-> <<0 - 9000, 9000>>,
   integral_limits |-> integral_limits,
   proportional |-> 0, integral |-> 0, derivative |-> 0,
   prev_error |-> 0, output |-> 0, is_saturated |-> FALSE,
   status |-> "ready", total_updates |-> 0,
   since |-> 0,        \* ticks since prev_time
   fed |-> <<>>,       \* the errors passed to update so far
   op |-> "none", args |-> <<0, 0>>, ret |-> 0, raised |-> FALSE]

Max(a, b) == IF a > b THEN a ELSE b

\* update, lines 163-167: np.clip of the accumulated integral
IntegralUnclipped(x, lo, hi) == x

IntegralClip(x, lo, hi) == Clip(x, lo, hi)

\* update, lines 139-224, with a number as error, elapse ticks after the
\* previous call
Update(p, error, elapse) ==
  LET delta_time == p.since + elapse
      q == [p EXCEPT !.op = "update", !.args = <<error, elapse>>,
                     !.raised = FALSE, !.fed = Append(@, error)]
  IN
  IF p.status = "error"
  THEN [q EXCEPT !.ret = 0, !.since = delta_time]
  ELSE IF delta_time < sample_time /\ p.total_updates > 0
  THEN [q EXCEPT !.status = "running", !.ret = p.output, !.since = delta_time]
  ELSE
    LET proportional == p.kP * error * 100
        integral == IF delta_time > 0
                    THEN IntegralClip(p.integral + error * delta_time,
                                      p.integral_limits[1], p.integral_limits[2])
                    ELSE p.integral
        integral_term == p.kI * integral
        derivative == IF delta_time > 0 /\ p.total_updates > 0
                      THEN (p.kD * (error - p.prev_error) * 10000) \div delta_time
                      ELSE 0
        raw_output == proportional + integral_term + derivative
        output == Clip(raw_output, p.output_limits[1], p.output_limits[2])
        is_saturated == Abs(raw_output) >
                          Max(Abs(p.output_limits[1]), Abs(p.output_limits[2]))
    IN [q EXCEPT !.proportional = proportional,
                 !.integral = integral,
                 !.derivative = derivative,
                 !.output = output,
                 !.is_saturated = is_saturated,
                 !.status = IF is_saturated THEN "saturated" ELSE "ready",
                 !.prev_error = error,
                 !.since = 0,
                 !.total_updates = @ + 1,
                 !.ret = output]

CallUpdate ==
  /\ Len(pid.fed) < MaxUpdates
  /\ \E error \in TestErrors, elapse \in Elapses :
       pid' = Update(pid, error, elapse)
  /\ UNCHANGED <<ovars, yolo, ctl>>

\* an argument of update that is no number
Malformed == 0 - 1000

\* update, lines 139-152 and 226-229, with an argument that is no number:
\* the exception raised at line 156 is caught, the status becomes ERROR
UpdateMalformed(p, elapse) ==
  LET delta_time == p.since + elapse
      q == [p EXCEPT !.op = "update_malformed", !.args = <<Malformed, elapse>>,
                     !.raised = FALSE, !.fed = Append(@, Malformed)]
  IN
  IF p.status = "error"
  THEN [q EXCEPT !.ret = 0, !.since = delta_time]
  ELSE IF delta_time < sample_time /\ p.total_updates > 0
  THEN [q EXCEPT !.status = "running", !.ret = p.output, !.since = delta_time]
  ELSE [q EXCEPT !.status = "error", !.ret = 0, !.since = delta_time]

CallUpdateMalformed ==
  /\ Len(pid.fed) < MaxUpdates
  /\ \E elapse \in Elapses : pid' = UpdateMalformed(pid, elapse)
  /\ UNCHANGED <<ovars, yolo, ctl>>

\* reset, lines 230-244: the state is cleared, the gains, the limits and
\* total_updates stay
ResetKeepingIntegral(p) ==
  [p EXCEPT !.op = "reset", !.args = <<0, 0>>, !.raised = FALSE, !.ret = 0,
            !.proportional = 0, !.derivative = 0,
            !.prev_error = 0, !.output = 0, !.is_saturated = FALSE,
            !.since = 0,
            !.status = IF @ # "error" THEN "ready" ELSE @]

Reset(p) ==
  [p EXCEPT !.op = "reset", !.args = <<0, 0>>, !.raised = FALSE, !.ret = 0,
            !.proportional = 0, !.integral = 0, !.derivative = 0,
            !.prev_error = 0, !.output = 0, !.is_saturated = FALSE,
            !.since = 0,
            !.status = IF @ # "error" THEN "ready" ELSE @]

CallReset ==
  /\ pid' = Reset(pid)
  /\ UNCHANGED <<ovars, yolo, ctl>>

\* get_components, lines 296-312
get_components(p) ==
  [proportional |-> p.proportional, integral |-> p.kI * p.integral,
   derivative |-> p.derivative, output |-> p.output]

\* set_output_limits / set_integral_limits, lines 274 and 290: the test
\* that raises PIDError
LimitsInvalidOnlyIfGreater(min, max) == min > max

LimitsInvalid(min, max) == min >= max

\* set_output_limits, lines 265-279
CallSetOutputLimits ==
  /\ \E a \in TestLimitArgs :
       IF LimitsInvalid(a[1], a[2])
       THEN pid' = [pid EXCEPT !.op = "set_output_limits", !.args = a,
                               !.raised = TRUE]
       ELSE pid' = [pid EXCEPT !.op = "set_output_limits", !.args = a,
                               !.raised = FALSE,
                               !.output_limits = <<a[1] * 100, a[2] * 100>>]
  /\ UNCHANGED <<ovars, yolo, ctl>>

\* set_integral_limits, lines 281-295
CallSetIntegralLimits ==
  /\ \E a \in TestLimitArgs :
       IF LimitsInvalid(a[1], a[2])
       THEN pid' = [pid EXCEPT !.op = "set_integral_limits", !.args = a,
                               !.raised = TRUE]
       ELSE pid' = [pid EXCEPT !.op = "set_integral_limits", !.args = a,
                               !.raised = FALSE,
                               !.integral_limits = a]
  /\ UNCHANGED <<ovars, yolo, ctl>>

\* the components as constructed, while nothing exercises them
UnitsIdle ==
  /\ yolo = NewDetector
  /\ ctl = NewController
  /\ pid = NewPID(<<1, 0, 0>>, <<0 - 5000, 5000>>)

Init ==
  /\ servo = <<>>
  /\ phys = [pan |-> NoAngle, tilt |-> NoAngle]
  /\ faults = 0
  /\ call = [t \in Threads |-> NoCall]
  /\ tpc = [t \in Threads |-> IF t = MainThread THEN "idle" ELSE "unborn"]
  /\ loc = [t \in Threads |-> NoLocals]
  /\ status = NewStatus
  /\ \E kind \in DetKinds : co = NewCoordinator(kind)
  /\ lock = NoThread
  /\ initrec = NoInit
  /\ now = 0
  /\ UnitsIdle

\* the first start_tracking of a coordinator
StartOnce == Len(servo) = 0 /\ StartTracking

\* the threads of a coordinator while the clock stands still
Running ==
  \/ InitServoDone
  \/ InitCenterDone
  \/ StopTracking
  \/ GetSystemStatus
  \/ \E w \in Workers :
       \/ LoopBegin(w)
       \/ ControlDetected(w)
       \/ ControlLost(w)
       \/ LoopEnd(w)
       \/ LoopFinally(w)
  \/ \E t \in Threads : StopStep(t)
  \/ \E t \in Threads : MethodStep(t)

\* the coordinator started once and driven from outside: stop and status
\* polls at any moment of the worker's cycles
Next ==
  \/ StartOnce
  \/ Running
  \/ \E w \in Workers : ControlDetectedDone(w)

Spec == Init /\ [][Next]_vars

\* a thread that called stop_tracking keeps running: the join timeout and the
\* settle delays elapse, whatever the worker does
FairSpec ==
  /\ Spec
  /\ WF_vars(StopStep(MainThread))
  /\ WF_vars(MethodStep(MainThread))

\* the coordinator stopped and started again while earlier workers live on
RestartNext == StartTracking \/ Running

\* the coordinator with modules/yolo_detector.py and a healthy servo driver
RestartInit ==
  /\ servo = <<>>
  /\ phys = [pan |-> NoAngle, tilt |-> NoAngle]
  /\ faults = MaxFaults
  /\ call = [t \in Threads |-> NoCall]
  /\ tpc = [t \in Threads |-> IF t = MainThread THEN "idle" ELSE "unborn"]
  /\ loc = [t \in Threads |-> NoLocals]
  /\ status = NewStatus
  /\ co = NewCoordinator("object")
  /\ lock = NoThread
  /\ initrec = NoInit
  /\ now = 0
  /\ UnitsIdle

SpecRestart == RestartInit /\ [][RestartNext]_vars

\* the coordinator started and left to run: the worker's cycles over time
CycleNext ==
  \/ StartOnce
  \/ InitServoDone
  \/ InitCenterDone
  \/ \E w \in Workers : WorkerStep(w)
  \/ \E t \in Threads : MethodStep(t)
  \/ Tick

SpecCycle == Init /\ [][CycleNext]_vars

(* --------------- a ServoController driven by one thread --------------- *)

ServoInit ==
  /\ \E pr \in PanRanges, tr \in TiltRanges : servo = <<NewServo(pr, tr)>>
  /\ phys = [pan |-> NoAngle, tilt |-> NoAngle]
  /\ faults = 0
  /\ call = [t \in Threads |-> NoCall]
  /\ tpc = [t \in Threads |-> "direct"]
  /\ loc = [t \in Threads |-> NoLocals]
  /\ status = NewStatus
  /\ co = NewCoordinator("dict")
  /\ lock = NoThread
  /\ initrec = NoInit
  /\ now = 0
  /\ UnitsIdle

DirectCall(op, pan, tilt) ==
  /\ ~InCall(MainThread)
  /\ call' = [call EXCEPT ![MainThread] = Enter(servo[1], op, 1, pan, tilt)]
  /\ UNCHANGED <<servo, phys, faults, cvars>>

CallInitialize == DirectCall("initialize", 0, 0)

CallSetPanAngle == \E a \in TestPans : DirectCall("set_pan_angle", a, 0)

CallSetTiltAngle == \E a \in TestTilts : DirectCall("set_tilt_angle", 0, a)

CallSetAngles == \E p \in TestPans, a \in TestTilts : DirectCall("set_angles", p, a)

\* move_to_center, lines 257-265
CallMoveToCenter == DirectCall("set_angles", 0, 0)

CallEmergencyStop == DirectCall("emergency_stop", 0, 0)

CallCleanup == DirectCall("cleanup", 0, 0)

ServoNext ==
  \/ CallInitialize
  \/ CallSetPanAngle
  \/ CallSetTiltAngle
  \/ CallSetAngles
  \/ CallMoveToCenter
  \/ CallEmergencyStop
  \/ CallCleanup
  \/ MethodStep(MainThread)

SpecServo == ServoInit /\ [][ServoNext]_vars

(* --------------- the detector's results for a single frame ------------ *)

DetectNext ==
  \/ DetectBox
  \/ CallGetBestDetection
  \/ CallProcessDetection

SpecDetect == Init /\ [][DetectNext]_vars

(* ------------- the proportional controller called directly ----------- *)

ControlNext ==
  \/ CallCalculateCorrection
  \/ CallCalculateCorrectionMalformed
  \/ CallSetGains
  \/ CallSetMaxCorrection
  \/ CallSetDeadband

SpecControl == Init /\ [][ControlNext]_vars

(* ------------------ the PID controller called directly --------------- *)

\* a PIDController constructed with gains and integral limits
PidInit ==
  /\ servo = <<>>
  /\ phys = [pan |-> NoAngle, tilt |-> NoAngle]
  /\ faults = 0
  /\ call = [t \in Threads |-> NoCall]
  /\ tpc = [t \in Threads |-> "direct"]
  /\ loc = [t \in Threads |-> NoLocals]
  /\ status = NewStatus
  /\ co = NewCoordinator("dict")
  /\ lock = NoThread
  /\ initrec = NoInit
  /\ now = 0
  /\ yolo = NewDetector
  /\ ctl = NewController
  /\ \E gains \in TestPidGains, limits \in TestIntegralLimits :
       pid = NewPID(gains, limits)

\* update calls only: the limits stay as constructed
SpecPidUpdate == PidInit /\ [][CallUpdate]_vars

PidNext ==
  \/ CallUpdate
  \/ CallUpdateMalformed
  \/ CallReset
  \/ CallSetOutputLimits
  \/ CallSetIntegralLimits

SpecPid == PidInit /\ [][PidNext]_vars

(* ------------------------------ claims -------------------------------- *)

\* C1: on a READY controller set_angles(pan, tilt) returns True exactly when
\* both angles are inside their inclusive ranges and the driver did not
\* raise, and then the stored angles are (pan, tilt); a call with an angle
\* outside its range returns False, writes nothing to the hardware and
\* leaves both stored angles as they were.
C1_SetAnglesContract ==
  LET c == call[MainThread]
      s == servo[1]
      inside == /\ s.pan_min <= c.pan /\ c.pan <= s.pan_max
                /\ s.tilt_min <= c.tilt /\ c.tilt <= s.tilt_max
  IN (c.op = "set_angles" /\ c.pc = "done" /\ c.ready) =>
       /\ c.ret <=> (inside /\ ~c.raised)
       /\ c.ret => /\ s.current_pan_angle = c.pan
                   /\ s.current_tilt_angle = c.tilt
       /\ ~inside => /\ ~c.ret
                     /\ ~c.wrote
                     /\ s.current_pan_angle = c.pre_pan
                     /\ s.current_tilt_angle = c.pre_tilt

\* C1 witness: with ranges [-90,90] and [-45,45] and the camera at (45, 45),
\* set_angles(100, 0) has been refused.
C1_Witness ==
  LET c == call[MainThread]  s == servo[1] IN
  /\ c.op = "set_angles" /\ c.pc = "done" /\ c.ready
  /\ s.pan_min = Deg(-90) /\ s.pan_max = Deg(90)
  /\ s.tilt_min = Deg(-45) /\ s.tilt_max = Deg(45)
  /\ c.pan = Deg(100) /\ c.tilt = Deg(0)
  /\ c.pre_pan = Deg(45) /\ c.pre_tilt = Deg(45)
  /\ ~c.ret

\* C2: every value written to the pan or tilt servo is the image of a
\* logical angle inside that axis's configured range, whatever the ranges.
C2_WritesInRange ==
  LET s == servo[1] IN
  /\ phys.pan # NoAngle =>
        /\ s.pan_min <= phys.pan - Deg(90)
        /\ phys.pan - Deg(90) <= s.pan_max
  /\ phys.tilt # NoAngle =>
        /\ s.tilt_min <= phys.tilt - Deg(90)
        /\ phys.tilt - Deg(90) <= s.tilt_max

\* C3: in every state, from construction on, the stored angles are inside
\* the configured ranges.
C3_StoredAnglesInRange ==
  LET s == servo[1] IN
  /\ s.pan_min <= s.current_pan_angle /\ s.current_pan_angle <= s.pan_max
  /\ s.tilt_min <= s.current_tilt_angle /\ s.current_tilt_angle <= s.tilt_max

\* C4: no thread holds the status lock while it is at the physical write or
\* in the settle delay of a ServoController method.
C4_LockNotHeldWhileBlocking ==
  \A t \in Threads : lock = t => call[t].pc \notin {"write", "settle"}

\* C5: no two threads are at the write or in the wait of a ServoController
\* method of the same controller at the same time.
C5_SingleServoWriter ==
  \A t, u \in Threads :
    (t # u /\ call[t].pc \in {"write", "settle"}
           /\ call[u].pc \in {"write", "settle"}) => call[t].obj # call[u].obj

\* C6: at most one worker thread is alive at any time.
C6_AtMostOneWorker == Cardinality({w \in Workers : Alive(w)}) <= 1

\* C7: a worker thread that has ended has run _cleanup_resources to its end.
C7_WorkerRunsShutdownPath == \A w \in Workers : tpc[w] = "dead" => loc[w].cleaned

\* C8: a stop_tracking called from outside the worker always returns, with
\* is_running cleared and _cleanup_resources run, whatever the worker does.
C8_StopTrackingReturns ==
  (tpc[MainThread] \in {"join", "cleanup", "cl_center", "cl_servo"})
    ~> (tpc[MainThread] = "idle" /\ loc[MainThread].cleaned /\ ~co.is_running)

\* C8 witness: the join has timed out and the caller is in _cleanup_resources
\* while the worker is still alive.
C8_Witness ==
  /\ tpc[MainThread] \in {"cl_center", "cl_servo"}
  /\ Alive(co.main_thread)
  /\ ~co.is_running

\* C9: initialize_system returns True exactly when the camera opened, the
\* servo controller initialised and the detector loaded, and then the mode is
\* SCANNING; when it returns False the mode is left as it was, is_running
\* stays False and no worker thread is started.
C9_InitializeSystem ==
  [][(initrec'.ret # initrec.ret /\ initrec'.ret # "none") =>
       /\ initrec'.ret = "True" <=>
             (initrec'.cam /\ initrec'.servo /\ initrec'.det)
       /\ initrec'.ret = "True" => status'.mode = "scanning"
       /\ initrec'.ret = "False" =>
             /\ status'.mode = status.mode
             /\ ~co'.is_running
             /\ \A w \in Workers : tpc'[w] = tpc[w]]_vars

\* C9 witness: the camera opened and the servo controller initialised, the
\* detector model failed to load: False, the mode still STANDBY, no worker.
C9_Witness ==
  /\ initrec.ret = "False"
  /\ initrec.cam /\ initrec.servo /\ ~initrec.det
  /\ status.mode = "standby"
  /\ ~co.is_running
  /\ \A w \in Workers : tpc[w] = "unborn"

\* C10: after _update_tracking_control ran with a detection the mode is
\* TRACKING, whether the accumulated angle was accepted or refused.
C10_DetectionSetsTracking ==
  \A w \in Workers :
    (tpc[w] = "post" /\ loc[w].det.kind # "none") => status.mode = "tracking"

\* C10 witness: nine detections at the lower edge of the frame moved the tilt
\* to -44.7408 degrees, the tenth asked for -49.712 degrees and was refused,
\* and the mode is TRACKING.
C10_Witness ==
  \E w \in Workers :
    /\ tpc[w] = "post" /\ loc[w].det.kind = "dict"
    /\ status.total_detections = 9
    /\ status.tilt_angle = 0 - 447408
    /\ ~is_angle_safe(servo[co.servo_controller], status.pan_angle,
                      status.tilt_angle + calculate_correction(loc[w].det.center)[2])
    /\ status.mode = "tracking"

\* the control step of worker w on a frame without a detection
LostCycle(w) ==
  /\ tpc[w] = "control" /\ tpc'[w] # "control"
  /\ loc[w].det.kind = "none"

\* C11: in a cycle without a detection while the mode is TRACKING, the mode
\* becomes SCANNING when more than lost_target_timeout has elapsed since
\* last_detection_time, and stays TRACKING when the elapsed time is less
\* than or equal to it.
C11_TimeoutDemotion ==
  [][\A w \in Workers :
       (/\ LostCycle(w)
        /\ status.mode = "tracking"
        /\ status.last_detection_time # NoTime) =>
          IF now - status.last_detection_time > lost_target_timeout
          THEN status'.mode = "scanning"
          ELSE status'.mode = "tracking"]_vars

\* C11 witness: the last correction is still the stored position, more than
\* lost_target_timeout has passed since the last detection, and the cycle
\* has switched to SCANNING and entered the sweep.
C11_Witness ==
  \E w \in Workers :
    /\ tpc[w] = "scan_servo"
    /\ status.mode = "scanning"
    /\ status.tilt_angle # 0
    /\ status.last_detection_time # NoTime
    /\ now - status.last_detection_time > lost_target_timeout

\* C12: in a cycle without a detection while the mode is TRACKING and the
\* timeout is not exceeded, no ServoController method is called and the
\* status changes only in target_detected, which becomes False.
C12_HoldPosition ==
  [][\A w \in Workers :
       (/\ LostCycle(w)
        /\ status.mode = "tracking"
        /\ \/ status.last_detection_time = NoTime
           \/ now - status.last_detection_time <= lost_target_timeout) =>
          /\ status' = [status EXCEPT !.target_detected = FALSE]
          /\ tpc'[w] = "post"
          /\ UNCHANGED <<call, servo, phys>>]_vars

\* C12 witness: exactly lost_target_timeout after the last detection a cycle
\* without a detection has run and the mode is still TRACKING.
C12_Witness ==
  \E w \in Workers :
    /\ tpc[w] = "post" /\ loc[w].det.kind = "none"
    /\ status.mode = "tracking"
    /\ ~status.target_detected
    /\ status.last_detection_time # NoTime
    /\ now - status.last_detection_time = lost_target_timeout
    /\ status.tilt_angle # 0

\* C13: every cycle without a detection while the mode is SCANNING enters a
\* sweep step (a set_angles call of the sweep).
C13_ScanningSweeps ==
  [][\A w \in Workers :
       (LostCycle(w) /\ status.mode = "scanning") =>
          (tpc'[w] = "scan_servo" /\ call'[w].op = "set_angles")]_vars

\* C14: a cycle in which the detector reported a detection ends with
\* target_detected = True and last_detection_time set.
C14_DetectionRecorded ==
  \A w \in Workers :
    (tpc[w] = "post" /\ loc[w].det.kind # "none") =>
       /\ status.target_detected
       /\ status.last_detection_time # NoTime

\* the control step of worker w on a frame with a detection
DetectedCycle(w) ==
  /\ tpc[w] = "control" /\ tpc'[w] # "control"
  /\ loc[w].det.kind # "none"

\* C15: when status angle + correction is outside the range of either axis
\* the cycle calls no ServoController method, leaves pan_angle, tilt_angle and
\* correction_applied as they were, records the detection (mode TRACKING,
\* target_detected True) and goes on to the end of the cycle.
C15_RefusedNotClamped ==
  [][\A w \in Workers :
       LET s == servo[co.servo_controller]
           corr == calculate_correction(loc[w].det.center)
           new_pan == status.pan_angle + corr[1]
           new_tilt == status.tilt_angle + corr[2]
       IN (/\ DetectedCycle(w)
           /\ \/ new_pan < s.pan_min \/ new_pan > s.pan_max
              \/ new_tilt < s.tilt_min \/ new_tilt > s.tilt_max) =>
             /\ UNCHANGED <<call, servo, phys>>
             /\ status'.pan_angle = status.pan_angle
             /\ status'.tilt_angle = status.tilt_angle
             /\ status'.correction_applied = status.correction_applied
             /\ status'.mode = "tracking"
             /\ status'.target_detected
             /\ tpc'[w] = "post"]_vars

\* C15 witness: the tenth detection at the lower edge of the frame was
\* refused: the stored correction is that of the ninth, no method was called.
C15_Witness ==
  \E w \in Workers :
    /\ tpc[w] = "post" /\ loc[w].det.kind = "dict"
    /\ status.total_detections = 9
    /\ status.tilt_angle = 0 - 447408
    /\ status.correction_applied = <<0, 0 - 49712>>
    /\ status.target_detected
    /\ call[w] = NoCall
    /\ servo[co.servo_controller].current_tilt_angle = 0 - 447408

\* C16: a control cycle that raises leaves every SystemStatus field as it
\* was before the cycle.
C16_FailedCycleKeepsStatus ==
  [][\A w \in Workers :
       (DetectedCycle(w) /\ loc[w].det.kind = "object") => status' = status]_vars

\* C17: a worker leaves its loop only at the loop test with is_running False
\* or at the end of a cycle (the 'q' key): a cycle whose detector raised
\* goes on through the control step, and a control step whose servo write
\* failed goes on to the end of the cycle.
C17_LoopSurvivesFailure ==
  [][\A w \in Workers :
       /\ (tpc'[w] = "finally" /\ tpc[w] # "finally") =>
             \/ tpc[w] = "loop" /\ ~co.is_running
             \/ tpc[w] = "post"
       /\ (tpc[w] \in {"track_servo", "scan_servo"} /\ tpc'[w] # tpc[w]) =>
             tpc'[w] = "post"
       /\ (tpc[w] = "post" /\ loc[w].det.failed /\ co.is_running) =>
             ENABLED (LoopEnd(w) /\ tpc'[w] = "loop")]_vars

\* C17 witness: a servo write of the worker has failed (the guard is in
\* ERROR and its stored tilt lags the status), and a later cycle whose
\* detector raised has run to its end with the loop still running.
C17_Witness ==
  \E w \in Workers :
    /\ tpc[w] = "post" /\ loc[w].det.failed
    /\ co.is_running
    /\ servo[co.servo_controller].status = "error"
    /\ status.tilt_angle # servo[co.servo_controller].current_tilt_angle

\* C18: an iteration whose camera.read() fails runs no detection and no
\* ServoController method, leaves the status and the servo state unchanged
\* and is followed by the loop test.
C18_FailedReadSkips ==
  [][\A w \in Workers :
       (tpc[w] = "loop" /\ ~loc[w].frame_failed /\ loc'[w].frame_failed) =>
          /\ UNCHANGED <<status, servo, phys, call>>
          /\ loc'[w].det = NoDetection
          /\ tpc'[w] = "loop"]_vars

\* C18 witness: after a recorded detection a read of the camera has failed
\* and the worker is back at the loop test.
C18_Witness ==
  \E w \in Workers :
    /\ tpc[w] = "loop" /\ loc[w].frame_failed
    /\ co.is_running
    /\ status.total_detections = 1
    /\ status.tilt_angle = 0 - 49712

\* C19: when initialize_system has returned False, no physical servo write
\* has been made.
C19_NoMotionBeforeInitFailure ==
  initrec.ret = "False" => (phys.pan = NoAngle /\ phys.tilt = NoAngle)

\* C20: when the driver raised during set_angles, set_pan_angle or
\* set_tilt_angle the call has returned False, the status is ERROR and the
\* stored angles are those from before the call.
C20_DriverErrorContract ==
  LET c == call[MainThread]
      s == servo[1]
  IN (/\ c.op \in {"set_angles", "set_pan_angle", "set_tilt_angle"}
      /\ c.pc = "done" /\ c.raised) =>
        /\ ~c.ret
        /\ s.status = "error"
        /\ s.current_pan_angle = c.pre_pan
        /\ s.current_tilt_angle = c.pre_tilt

\* C20 witness: from (45, 45) set_angles(90, 0) wrote the pan servo, the
\* driver raised at the tilt servo, and the stored pair is still (45, 45).
C20_Witness ==
  LET c == call[MainThread]  s == servo[1] IN
  /\ c.op = "set_angles" /\ c.pc = "done" /\ c.raised /\ c.wrote
  /\ c.pan = Deg(90) /\ c.tilt = Deg(0)
  /\ c.pre_pan = Deg(45) /\ c.pre_tilt = Deg(45)
  /\ s.current_pan_angle = Deg(45) /\ s.current_tilt_angle = Deg(45)
  /\ s.status = "error"
  /\ phys.pan = PanAngleToServo(Deg(90))

C22_EmergencyStopContract ==
  LET c == call[MainThread]  s == servo[1] IN
  (c.op = "emergency_stop" /\ c.pc # "enter") =>
     /\ c.pc = "done"
     /\ s.status = "error"
     /\ s.hw => (c.raised \/ (/\ c.wrote
                              /\ phys.pan = PanAngleToServo(0)
                              /\ phys.tilt = TiltAngleToServo(0)))
     /\ ~s.hw => (~c.raised /\ ~c.wrote)

\* C22 witness: emergency_stop on a controller at (45, 45) wrote the pan
\* servo, the driver raised at the tilt servo, and the call has returned.
C22_Witness ==
  LET c == call[MainThread]  s == servo[1] IN
  /\ c.op = "emergency_stop" /\ c.pc = "done"
  /\ c.raised /\ c.wrote
  /\ s.status = "error"
  /\ c.pre_pan = Deg(45) /\ c.pre_tilt = Deg(45)
  /\ phys.pan = PanAngleToServo(0)
  /\ phys.tilt = TiltAngleToServo(Deg(45))

\* the positions of a thread inside `with self.lock` of
\* _update_tracking_control (line 294) and _update_system_status (line 444)
InLockedSection(t) == tpc[t] \in {"control", "track_servo", "scan_servo", "post"}

\* C23: every step that changes a field of the status is a step of a thread
\* that is inside a `with self.lock` section, initialize_system included.
C23_StatusWrittenUnderLock ==
  [][status' # status =>
       \E t \in Threads : InLockedSection(t) /\ tpc'[t] # tpc[t]]_vars

\* C24: the cycle of a worker ends by raising total_detections by exactly 1
\* when the cycle had a detection and by leaving it unchanged when it had
\* none; no other step changes the counter.
C24_CountsEachDetection ==
  [][/\ \A w \in Workers :
          (tpc[w] = "post" /\ tpc'[w] # "post") =>
             status'.total_detections =
               status.total_detections +
                 (IF loc[w].det.kind # "none" THEN 1 ELSE 0)
     /\ (\A w \in Workers : ~(tpc[w] = "post" /\ tpc'[w] # "post")) =>
          status'.total_detections = status.total_detections]_vars

\* C25: get_best_detection returns None for the empty list and otherwise an
\* element of the list whose confidence no other element exceeds, the first
\* such element in list order; _process_detection hands over the empty list
\* or the list of that one element.
C25_BestDetection ==
  LET ds == yolo.detections
      IsBest(b) ==
        \E i \in 1..Len(ds) :
          /\ ds[i] = b
          /\ \A j \in 1..Len(ds) : ds[j].confidence <= b.confidence
          /\ \A j \in 1..(i - 1) : ds[j].confidence < b.confidence
  IN /\ yolo.op = "get_best_detection" =>
          IF ds = <<>> THEN yolo.best = NoBest ELSE IsBest(yolo.best)
     /\ yolo.op = "process_detection" =>
          /\ Len(yolo.results) <= 1
          /\ IF ds = <<>> THEN yolo.results = <<>>
             ELSE Len(yolo.results) = 1 /\ IsBest(yolo.results[1])

\* C25 witness: of the boxes (70, 90, 90, 60) the second has been returned.
C25_Witness ==
  /\ yolo.op = "get_best_detection"
  /\ Len(yolo.detections) = 4
  /\ yolo.detections[1].confidence = 70
  /\ yolo.detections[2].confidence = 90
  /\ yolo.detections[3].confidence = 90
  /\ yolo.detections[4].confidence = 60
  /\ yolo.best = yolo.detections[2]

\* C26: a call of calculate_correction returns 0 for each axis whose pixel
\* error is smaller in size than the deadband, whatever the other axis is;
\* with both errors inside the deadband it returns (0, 0).
C26_DeadbandPerAxis ==
  LET ex == ctl.center[1] - (image_width \div 2)
      ey == ctl.center[2] - (image_height \div 2)
  IN ctl.op = "calculate_correction" =>
       /\ Abs(ex) < ctl.deadband => ctl.result[1] = 0
       /\ Abs(ey) < ctl.deadband => ctl.result[2] = 0
       /\ (Abs(ex) < ctl.deadband /\ Abs(ey) < ctl.deadband) =>
            ctl.result = <<0, 0>>

\* C26 witness: at (316, 320) with deadband 5 the pan axis is inside the
\* deadband and gives 0 while the tilt axis is corrected by -80 * 0.0208.
C26_Witness ==
  /\ ctl.op = "calculate_correction" /\ ctl.computed
  /\ ctl.deadband = 5 /\ ctl.tilt_gain = 208
  /\ ctl.center = <<316, 320>>
  /\ ctl.result = <<0, 0 - 16640>>

\* C27: whatever was called before, both components of the result of
\* calculate_correction are at most max_correction in size.
C27_CorrectionBounded ==
  ctl.op \in {"calculate_correction", "calculate_correction_malformed"} =>
    /\ 0 - ctl.max_correction <= ctl.result[1]
    /\ ctl.result[1] <= ctl.max_correction
    /\ 0 - ctl.max_correction <= ctl.result[2]
    /\ ctl.result[2] <= ctl.max_correction

\* C27 witness: the second call, with max_correction 1 degree and the centre
\* (1000, -200), has returned both corrections cut to 1 degree.
C27_Witness ==
  /\ ctl.op = "calculate_correction" /\ ctl.computed
  /\ ctl.total_corrections = 2
  /\ ctl.max_correction = Deg(1) /\ ctl.pan_gain = 156
  /\ ctl.center = <<1000, 0 - 200>>
  /\ ctl.result = <<Deg(1), Deg(1)>>

Sign(x) == IF x > 0 THEN 1 ELSE IF x < 0 THEN 0 - 1 ELSE 0

C29_IntegralWithinLimits ==
  pid.op = "update" =>
    /\ pid.integral_limits[1] <= pid.integral
    /\ pid.integral <= pid.integral_limits[2]

\* C29 witness: four updates with the error 2, two ticks apart, would have
\* accumulated 16; the integral stands at the upper limit 5.
C29_Witness ==
  /\ pid.op = "update"
  /\ pid.fed = <<2, 2, 2, 2>>
  /\ pid.total_updates = 4
  /\ pid.args = <<2, 2>>
  /\ pid.integral_limits = <<0 - 5, 5>>
  /\ pid.integral = 5

\* C30: set_output_limits and set_integral_limits called with min >= max
\* raise PIDError and leave the limits and all other state of the
\* controller as they were.
C30_InvalidLimitsRejected ==
  [][(/\ pid' # pid
      /\ pid'.op \in {"set_output_limits", "set_integral_limits"}
      /\ pid'.args[1] >= pid'.args[2]) =>
        pid' = [pid EXCEPT !.op = pid'.op, !.args = pid'.args,
                           !.raised = TRUE]]_vars

\* C30 witness: after two updates, set_integral_limits(5, 5) has raised and the
\* limits are still (-3, 8) with the integral at 8.
C30_Witness ==
  /\ pid.op = "set_integral_limits" /\ pid.raised
  /\ pid.args = <<5, 5>>
  /\ pid.integral_limits = <<0 - 3, 8>>
  /\ pid.integral = 8
  /\ pid.total_updates = 2

\* C31: a reset call leaves the components reported by get_components at
\* proportional = integral = derivative = output = 0 and keeps the gains and
\* both pairs of limits; a reset call that follows a reset call changes
\* nothing.
C31_ResetClearsState ==
  [][pid'.op = "reset" =>
       /\ get_components(pid') =
            [proportional |-> 0, integral |-> 0, derivative |-> 0, output |-> 0]
       /\ pid'.integral = 0
       /\ pid'.kP = pid.kP /\ pid'.kI = pid.kI /\ pid'.kD = pid.kD
       /\ pid'.output_limits = pid.output_limits
       /\ pid'.integral_limits = pid.integral_limits
       /\ pid.op = "reset" => pid' = pid]_vars

\* C31 witness: reset has been called after two updates with kD = 2 and
\* after set_output_limits(-2, 2); the limits set are still in place.
C31_Witness ==
  /\ pid.op = "reset"
  /\ pid.total_updates = 2
  /\ pid.fed = <<2, 0 - 3>>
  /\ pid.kD = 2
  /\ pid.output_limits = <<0 - 200, 200>>
  /\ pid.integral_limits = <<0 - 3, 8>>
  /\ pid.integral = 0 /\ pid.output = 0 /\ pid.derivative = 0

\* a newly constructed controller with the gains and limits of p
Fresh(p) ==
  [NewPID(<<p.kP, p.kI, p.kD>>, p.integral_limits)
     EXCEPT !.output_limits = p.output_limits]

\* C40: the update call that follows a reset returns what the first update
\* of a newly constructed controller with the same gains and limits returns
\* for the same error: it is computed whatever time has passed, and its
\* derivative term is 0.
C40_ResetLikeFresh ==
  [][(pid.op = "reset" /\ pid.status # "error" /\ pid'.op = "update") =>
       /\ pid'.ret = Update(Fresh(pid), pid'.args[1], pid'.args[2]).ret
       /\ pid'.derivative = 0
       /\ pid'.prev_error = pid'.args[1]]_vars

(* ------------------------------ C32 ----------------------------------- *)

\* the clock runs on past MaxTime: only the time since the last detection is
\* read (line 332), so it is kept by moving last_detection_time back
TickOn ==
  /\ now = MaxTime
  /\ status.last_detection_time > 0
  /\ status' = [status EXCEPT !.last_detection_time = @ - 1]
  /\ UNCHANGED <<servo, phys, faults, uvars, call, tpc, loc, co, lock, initrec, now>>

FairCycleNext == CycleNext \/ TickOn

\* the worker is a running thread (daemon thread of start_tracking, lines
\* 192-197): its loop, the servo methods it is in and the clock all advance
FairCycle ==
  /\ Init /\ [][FairCycleNext]_vars
  /\ \A w \in Workers : WF_vars(WorkerStep(w)) /\ WF_vars(MethodStep(w))
  /\ WF_vars(Tick)
  /\ WF_vars(TickOn)

\* C32: when mode is TRACKING at the start of a cycle and the worker keeps
\* looping without any further detection, mode eventually becomes SCANNING;
\* the other ways out are a new detection or the end of the loop
C32_LostTargetDemoted ==
  \A w \in Workers :
    (status.mode = "tracking" /\ tpc[w] = "loop" /\ co.is_running)
      ~> \/ status.mode = "scanning"
         \/ loc[w].det.kind # "none"
         \/ tpc[w] \in {"finally", "dead"}

(* ------------------------------ C33 ----------------------------------- *)

\* what the hardware holds after _set_servo_angles(0.0, 0.0)
Centred == [pan |-> PanAngleToServo(0), tilt |-> TiltAngleToServo(0)]

\* stop_tracking of a started coordinator has returned to its caller
StopReturned ==
  /\ tpc[MainThread] = "idle"
  /\ loc[MainThread].cleaned
  /\ co.main_thread # NoThread
  /\ co.yolo_detector = "uninitialized"

\* C33: once stop_tracking has returned, the servos hold the centre position
\* and stay there, whatever the worker was doing when it was asked to stop
\* (stated here for runs without any driver exception)
C33_CentredAfterStop == (StopReturned /\ faults = 0) => phys = Centred

(* ------------------------------ C34 ----------------------------------- *)

\* get_current_angles, lines 248-256
get_current_angles(s) == <<s.current_pan_angle, s.current_tilt_angle>>

\* C34: at the end of every control cycle the status angles cached by the
\* coordinator are the angles stored by the servo controller
C34_CacheMatchesGuard ==
  \A w \in Workers :
    tpc[w] = "post" =>
      <<status.pan_angle, status.tilt_angle>> =
        get_current_angles(servo[co.servo_controller])

(* ------------------------------ C35 ----------------------------------- *)

\* is_running has been set to False since worker w was started: it is False
\* now, or a later start_tracking (which requires it False, line 184) has
\* replaced w as main_thread
StoppedSince(w) == ~co.is_running \/ co.main_thread # w

\* C35: a worker at the top of its loop after is_running was set to False
\* starts no new cycle: it reads no frame and goes nowhere but out of the loop
C35_NoNewCycleAfterStop ==
  [][\A w \in Workers :
       (tpc[w] = "loop" /\ StoppedSince(w)) =>
          /\ tpc'[w] \in {"loop", "finally"}
          /\ loc'[w] = loc[w]]_vars

(* ------------------------------ C36 ----------------------------------- *)

\* C36: whenever mode is TRACKING, last_detection_time is set (looked at
\* outside the locked section of _update_tracking_control, where mode and
\* last_detection_time are assigned one after the other)
C36_TrackingHasDetectionTime ==
  (status.mode = "tracking" /\ lock = NoThread) =>
    status.last_detection_time # NoTime

(* --------------------- main.py: PetTrackingApp ------------------------ *)

\* run(), lines 198-199: tracker.start_tracking()
AppStart ==
  /\ loc[MainThread].app = "run"
  /\ initrec.ret = "none"
  /\ StartOnce

\* run(), line 202: start_tracking returned, _status_monitoring_loop begins
MonitorEnter ==
  /\ loc[MainThread].app = "run" /\ tpc[MainThread] = "idle"
  /\ initrec.ret # "none"
  /\ loc' = [loc EXCEPT ![MainThread].app = "monitor"]
  /\ UNCHANGED <<servo, phys, faults, uvars, call, tpc, status, co, lock, initrec, now>>

\* _print_system_status, line 238: get_system_status takes the status lock
\* (tracking_coordinator.py line 458)
MonitorStatus ==
  /\ loc[MainThread].app = "monitor"
  /\ co.is_running
  /\ lock = NoThread
  /\ lock' = MainThread
  /\ loc' = [loc EXCEPT ![MainThread].app = "status"]
  /\ UNCHANGED <<servo, phys, faults, uvars, call, tpc, status, co, initrec, now>>

\* get_system_status, lines 459-470: the dict is built, the lock released
StatusReturn ==
  /\ loc[MainThread].app = "status"
  /\ lock' = NoThread
  /\ loc' = [loc EXCEPT ![MainThread].app = "monitor"]
  /\ UNCHANGED <<servo, phys, faults, uvars, call, tpc, status, co, initrec, now>>

\* _status_monitoring_loop, line 222: the tracker stopped by itself; run
\* returns through its finally clause, line 213
MonitorEnd ==
  /\ loc[MainThread].app = "monitor"
  /\ ~co.is_running
  /\ loc' = [loc EXCEPT ![MainThread].app = "finally"]
  /\ tpc' = [tpc EXCEPT ![MainThread] = "final"]
  /\ UNCHANGED <<servo, phys, faults, uvars, call, status, co, lock, initrec, now>>

\* setup_signal_handlers, lines 93-96: SIGINT or SIGTERM; Python runs the
\* handler on the main thread, on top of whatever frame it interrupts
Signal ==
  /\ loc[MainThread].app \in {"monitor", "status"}
  /\ loc' = [loc EXCEPT ![MainThread].app = "handler"]
  /\ tpc' = [tpc EXCEPT ![MainThread] = "signal"]
  /\ UNCHANGED <<servo, phys, faults, uvars, call, status, co, lock, initrec, now>>

\* stop(), lines 260-266, called by the handler: tracker.stop_tracking()
HandlerStop == tpc[MainThread] = "signal" /\ StopBegin(MainThread)

\* stop(), lines 272-278: get_system_status() after stop_tracking returned,
\* then sys.exit(0) of the handler, line 96
HandlerStatus ==
  /\ loc[MainThread].app = "handler" /\ tpc[MainThread] = "idle"
  /\ lock = NoThread
  /\ loc' = [loc EXCEPT ![MainThread].app = "exit"]
  /\ UNCHANGED <<servo, phys, faults, uvars, call, tpc, status, co, lock, initrec, now>>

\* SystemExit unwinds the interrupted frames up to the finally clause of run
Unwind ==
  /\ loc[MainThread].app = "exit"
  /\ lock' = IF lock = MainThread THEN NoThread ELSE lock
  /\ loc' = [loc EXCEPT ![MainThread].app = "finally"]
  /\ tpc' = [tpc EXCEPT ![MainThread] = "final"]
  /\ UNCHANGED <<servo, phys, faults, uvars, call, status, co, initrec, now>>

\* run(), line 213: finally: self.stop(), and its tracker.stop_tracking()
FinalStop == tpc[MainThread] = "final" /\ StopBegin(MainThread)

\* stop(), lines 272-282, of the finally clause
FinalStatus ==
  /\ loc[MainThread].app = "finally" /\ tpc[MainThread] = "idle"
  /\ lock = NoThread
  /\ loc' = [loc EXCEPT ![MainThread].app = "done"]
  /\ UNCHANGED <<servo, phys, faults, uvars, call, tpc, status, co, lock, initrec, now>>

\* the steps of the main thread in main.py
AppStep ==
  \/ AppStart
  \/ MonitorEnter
  \/ InitServoDone
  \/ InitCenterDone
  \/ MonitorStatus
  \/ StatusReturn
  \/ MonitorEnd
  \/ HandlerStop
  \/ HandlerStatus
  \/ Unwind
  \/ FinalStop
  \/ FinalStatus
  \/ StopStep(MainThread)

\* the steps of a worker while the clock stands still
LoopStep(w) ==
  \/ LoopBegin(w)
  \/ ControlDetected(w)
  \/ ControlDetectedDone(w)
  \/ ControlLost(w)
  \/ LoopEnd(w)
  \/ LoopFinally(w)

MainNext ==
  \/ AppStep
  \/ Signal
  \/ \E w \in Workers : LoopStep(w)
  \/ \E t \in Threads : MethodStep(t)

\* main.py run() with a healthy servo driver
MainInit ==
  /\ servo = <<>>
  /\ phys = [pan |-> NoAngle, tilt |-> NoAngle]
  /\ faults = MaxFaults
  /\ call = [t \in Threads |-> NoCall]
  /\ tpc = [t \in Threads |-> IF t = MainThread THEN "idle" ELSE "unborn"]
  /\ loc = [t \in Threads |->
              IF t = MainThread THEN [NoLocals EXCEPT !.app = "run"] ELSE NoLocals]
  /\ status = NewStatus
  /\ \E kind \in DetKinds : co = NewCoordinator(kind)
  /\ lock = NoThread
  /\ initrec = NoInit
  /\ now = 0
  /\ UnitsIdle

SpecMain == MainInit /\ [][MainNext]_vars

\* both threads keep running: the main thread with its handler, the worker,
\* the servo methods either is in; the signal itself may or may not come
FairMain ==
  /\ SpecMain
  /\ WF_vars(AppStep)
  /\ \A w \in Workers : WF_vars(LoopStep(w))
  /\ \A t \in Threads : WF_vars(MethodStep(t))

(* ------------------------------ C37 ----------------------------------- *)

\* C37: a signal handler that has been entered finishes: its stop() gets
\* through stop_tracking and get_system_status and reaches sys.exit
C37_SignalHandled ==
  (loc[MainThread].app = "handler") ~> (loc[MainThread].app = "exit")

(* ------------------------------ C38 ----------------------------------- *)

\* C38: a sweep step hands set_angles a pan within [-30, +30] degrees and
\* tilt 0, only when is_angle_safe accepts the pair; after the call the
\* status holds the commanded pan and tilt 0
C38_SweepStep ==
  [][\A w \in Workers :
       /\ (tpc[w] # "scan_servo" /\ tpc'[w] = "scan_servo") =>
            /\ call'[w].op = "set_angles"
            /\ call'[w].pan >= Deg(-30) /\ call'[w].pan <= Deg(30)
            /\ call'[w].tilt = 0
            /\ is_angle_safe(servo[co.servo_controller], call'[w].pan, 0)
       /\ (tpc[w] = "scan_servo" /\ tpc'[w] # "scan_servo") =>
            /\ status'.pan_angle = call[w].pan
            /\ status'.tilt_angle = 0]_vars

C38_Witness ==
  \E w \in Workers :
    /\ tpc[w] = "post"
    /\ status.mode = "scanning"
    /\ status.pan_angle = Deg(-30) /\ status.tilt_angle = 0
    /\ phys = [pan |-> PanAngleToServo(Deg(-30)), tilt |-> TiltAngleToServo(0)]
    /\ status.total_detections > 0

(* ------------------------------ C39 ----------------------------------- *)

\* a stop_tracking called after an earlier one had completed is under way
SecondStop == co.yolo_detector = "uninitialized" /\ tpc[MainThread] # "idle"

\* C39: a stop_tracking repeated after a completed one issues no physical
\* servo write and leaves is_running False (stated here for runs without
\* any driver exception)
C39_SecondStopIdle ==
  [][(SecondStop /\ faults = 0) =>
       /\ ~(call'[MainThread].wrote /\ ~call[MainThread].wrote)
       /\ ~co'.is_running]_vars

====
